---- MODULE Spec2Model ----
(***************************************************************************)
(* click-llm: the injection layer (src/src/click_llm/inject.py) and the    *)
(* catalog builder and text renderer (src/src/click_llm/catalog.py).       *)
(***************************************************************************)
EXTENDS Integers, Sequences, FiniteSets, TLC

(* Python's None: as a name or a function reference, and as a command. *)
None == "None"
NoCommand == [origin |-> "None"]

(***************************************************************************)
(* Bounds of the model.                                                    *)
(***************************************************************************)
NumThreads == 2

Threads == 1..NumThreads

(* two root groups; both carry the name "cli" and differ in identity only.
   Both stay referenced for the whole run (the cached command's closure holds
   its group), so the weak registry never drops an entry. *)
Groups == {"g1", "g2"}

(***************************************************************************)
(* Command names.  NameSeq lists the names the model uses in ascending     *)
(* code-point order, the order of Python's str comparison that sorted()    *)
(* and list.sort() use.                                                    *)
(***************************************************************************)
NameSeq == <<"cli", "hello", "llm", "secret", "x">>
Rank(n) == CHOOSE i \in 1..Len(NameSeq) : NameSeq[i] = n
NameLess(a, b) == Rank(a) < Rank(b)

(* names handed to autopatch()/attach(), names looked up, names the host adds *)
PatchNames == {"llm", "x"}
LookupNames == {"hello", "llm", "x"}
HostNames == {"llm"}

(***************************************************************************)
(* The framework's two entry points and the two wrappers autopatch builds. *)
(***************************************************************************)
ClickGetCommand == "click.Group.get_command"
ClickListCommands == "click.Group.list_commands"
PatchedGetCommand == "patched_get_command"
PatchedListCommands == "patched_list_commands"

VARIABLES
  PATCHED,              \* inject.py _PATCHED
  PATCH_COMMAND_NAME,   \* inject.py _PATCH_COMMAND_NAME
  ORIG_GET_COMMAND,     \* inject.py _ORIG_GET_COMMAND
  ORIG_LIST_COMMANDS,   \* inject.py _ORIG_LIST_COMMANDS
  Group_get_command,    \* the attribute click.Group.get_command
  Group_list_commands,  \* the attribute click.Group.list_commands
  commands,             \* commands[g][n]: group g's explicit table, None = absent
  INJECTED_COMMANDS,    \* inject.py _INJECTED_COMMANDS, None = no entry
  LOCK,                 \* inject.py _LOCK: TRUE while a thread holds it
  pc,                   \* pc[t]: where thread t is in patched_get_command
  frame,                \* frame[t]: the locals of thread t's call
  built,                \* built[g]: commands built for g by patched_get_command
  last,                 \* the last completed call, its arguments and outcome
  tree,                 \* the host's command tree: path below the root -> command
  include_hidden,       \* the include_hidden argument of the catalog being built
  catalog,              \* the dict build_click_catalog returned
  text,                 \* the string render_catalog_text returned
  stdout                \* what the injected command wrote with click.echo

patchVars == <<PATCHED, PATCH_COMMAND_NAME, ORIG_GET_COMMAND, ORIG_LIST_COMMANDS,
               Group_get_command, Group_list_commands>>
injectVars == <<PATCHED, PATCH_COMMAND_NAME, ORIG_GET_COMMAND, ORIG_LIST_COMMANDS,
                Group_get_command, Group_list_commands, commands,
                INJECTED_COMMANDS, LOCK, pc, frame, built, last>>

catalogVars == <<tree, include_hidden, catalog, text, stdout>>
vars == <<injectVars, catalogVars>>

(* the patch state as one value, to compare before and after a call *)
PatchState == [patched |-> PATCHED, name |-> PATCH_COMMAND_NAME,
               orig_get |-> ORIG_GET_COMMAND, orig_list |-> ORIG_LIST_COMMANDS,
               get_command |-> Group_get_command,
               list_commands |-> Group_list_commands]

NoFrame == [self |-> None, has_parent |-> FALSE, cmd_name |-> None, injected |-> NoCommand]

(***************************************************************************)
(* Command objects.  serial tells apart the objects _build_llm_command     *)
(* returns for one group on the registry path.                             *)
(***************************************************************************)
HostCommand(g, n) == [origin |-> "host", name |-> n, group |-> g, serial |-> 0]

build_llm_command(root_group, command_name, origin, serial) ==
  [origin |-> origin, name |-> command_name, group |-> root_group, serial |-> serial]

InitInject ==
  /\ PATCHED = FALSE
  /\ PATCH_COMMAND_NAME = "llm"
  /\ ORIG_GET_COMMAND = None
  /\ ORIG_LIST_COMMANDS = None
  /\ Group_get_command = ClickGetCommand
  /\ Group_list_commands = ClickListCommands
  /\ commands = [g \in Groups |->
                   [n \in LookupNames |-> IF n = "hello" THEN HostCommand(g, n) ELSE NoCommand]]
  /\ INJECTED_COMMANDS = [g \in Groups |-> NoCommand]
  /\ LOCK = FALSE
  /\ pc = [t \in Threads |-> "idle"]
  /\ frame = [t \in Threads |-> NoFrame]
  /\ built = [g \in Groups |-> 0]
  /\ last = [op |-> "init"]

(* autopatch without the name comparison of line 71: a different name re-patches *)
autopatch_no_conflict(command_name) ==
  /\ IF PATCHED /\ PATCH_COMMAND_NAME = command_name
       THEN /\ last' = [op |-> "autopatch", arg |-> command_name, pre |-> PatchState,
                        raised |-> FALSE]
            /\ UNCHANGED patchVars
       ELSE /\ PATCH_COMMAND_NAME' = command_name
            /\ ORIG_GET_COMMAND' = Group_get_command
            /\ ORIG_LIST_COMMANDS' = Group_list_commands
            /\ Group_get_command' = PatchedGetCommand
            /\ Group_list_commands' = PatchedListCommands
            /\ PATCHED' = TRUE
            /\ last' = [op |-> "autopatch", arg |-> command_name, pre |-> PatchState,
                        raised |-> FALSE]
  /\ UNCHANGED <<commands, INJECTED_COMMANDS, LOCK, pc, frame, built, catalogVars>>

(* autopatch without the early return of line 75: the same name saves again *)
autopatch_resave(command_name) ==
  /\ IF PATCHED /\ PATCH_COMMAND_NAME # command_name
       THEN /\ last' = [op |-> "autopatch", arg |-> command_name, pre |-> PatchState,
                        raised |-> TRUE]
            /\ UNCHANGED patchVars
       ELSE /\ PATCH_COMMAND_NAME' = command_name
            /\ ORIG_GET_COMMAND' = Group_get_command
            /\ ORIG_LIST_COMMANDS' = Group_list_commands
            /\ Group_get_command' = PatchedGetCommand
            /\ Group_list_commands' = PatchedListCommands
            /\ PATCHED' = TRUE
            /\ last' = [op |-> "autopatch", arg |-> command_name, pre |-> PatchState,
                        raised |-> FALSE]
  /\ UNCHANGED <<commands, INJECTED_COMMANDS, LOCK, pc, frame, built, catalogVars>>

(***************************************************************************)
(* autopatch(command_name), inject.py 60-113.                              *)
(***************************************************************************)
autopatch(command_name) ==
  /\ IF PATCHED
       THEN /\ last' = [op |-> "autopatch", arg |-> command_name, pre |-> PatchState,
                        raised |-> (PATCH_COMMAND_NAME # command_name)]
            /\ UNCHANGED patchVars
       ELSE /\ PATCH_COMMAND_NAME' = command_name
            /\ ORIG_GET_COMMAND' = Group_get_command
            /\ ORIG_LIST_COMMANDS' = Group_list_commands
            /\ Group_get_command' = PatchedGetCommand
            /\ Group_list_commands' = PatchedListCommands
            /\ PATCHED' = TRUE
            /\ last' = [op |-> "autopatch", arg |-> command_name, pre |-> PatchState,
                        raised |-> FALSE]
  /\ UNCHANGED <<commands, INJECTED_COMMANDS, LOCK, pc, frame, built, catalogVars>>

(***************************************************************************)
(* unpatch(), inject.py 116-125.                                           *)
(***************************************************************************)
unpatch ==
  /\ IF ~PATCHED
       THEN UNCHANGED patchVars
       ELSE /\ Group_get_command' = ORIG_GET_COMMAND
            /\ Group_list_commands' = ORIG_LIST_COMMANDS
            /\ PATCHED' = FALSE
            /\ UNCHANGED <<PATCH_COMMAND_NAME, ORIG_GET_COMMAND, ORIG_LIST_COMMANDS>>
  /\ last' = [op |-> "unpatch", pre |-> PatchState, raised |-> FALSE]
  /\ UNCHANGED <<commands, INJECTED_COMMANDS, LOCK, pc, frame, built, catalogVars>>

(***************************************************************************)
(* Python's list.sort() on a list of names (insertion into sorted order).  *)
(***************************************************************************)
RECURSIVE InsertName(_, _)
InsertName(n, s) ==
  IF s = <<>> THEN <<n>>
  ELSE IF NameLess(n, Head(s)) THEN <<n>> \o s
  ELSE <<Head(s)>> \o InsertName(n, Tail(s))

RECURSIVE SortNames(_)
SortNames(s) == IF s = <<>> THEN <<>> ELSE InsertName(Head(s), SortNames(Tail(s)))

RECURSIVE SetToSeq(_)
SetToSeq(S) == IF S = {} THEN <<>>
               ELSE LET n == CHOOSE m \in S : TRUE IN <<n>> \o SetToSeq(S \ {n})

InSeq(n, s) == \E i \in 1..Len(s) : s[i] = n

(***************************************************************************)
(* The framework's own resolver and lister (click.Group.get_command is     *)
(* self.commands.get(cmd_name), click.Group.list_commands is               *)
(* sorted(self.commands)), reached through the saved references.           *)
(***************************************************************************)
TableNames(self) == {n \in DOMAIN commands[self] : commands[self][n] # NoCommand}

click_get_command(self, cmd_name) == commands[self][cmd_name]

click_list_commands(self) == SortNames(SetToSeq(TableNames(self)))

(* _ORIG_GET_COMMAND(self, ctx, cmd_name): a saved wrapper would call itself *)
orig_get_command(self, cmd_name) ==
  IF ORIG_GET_COMMAND = ClickGetCommand THEN click_get_command(self, cmd_name)
  ELSE [origin |-> "RecursionError"]

orig_list_commands(self) ==
  IF ORIG_LIST_COMMANDS = ClickListCommands THEN click_list_commands(self)
  ELSE <<"RecursionError">>

(* the wrapper looking into the registry before it asks the original resolver *)
patched_get_command_head_registry_first(self, has_parent, cmd_name) ==
  LET command == orig_get_command(self, cmd_name) IN
  IF cmd_name = PATCH_COMMAND_NAME /\ ~has_parent /\ INJECTED_COMMANDS[self] # NoCommand
    THEN [returns |-> TRUE, value |-> INJECTED_COMMANDS[self]]
  ELSE IF command # NoCommand THEN [returns |-> TRUE, value |-> command]
  ELSE IF cmd_name # PATCH_COMMAND_NAME THEN [returns |-> TRUE, value |-> NoCommand]
  ELSE IF has_parent THEN [returns |-> TRUE, value |-> NoCommand]
  ELSE IF commands[self][PATCH_COMMAND_NAME] # NoCommand THEN [returns |-> TRUE, value |-> NoCommand]
  ELSE [returns |-> FALSE, value |-> NoCommand]

(* the wrapper without the ctx.parent test of line 89 *)
patched_get_command_head_any_context(self, has_parent, cmd_name) ==
  LET command == orig_get_command(self, cmd_name) IN
  IF command # NoCommand THEN [returns |-> TRUE, value |-> command]
  ELSE IF cmd_name # PATCH_COMMAND_NAME THEN [returns |-> TRUE, value |-> NoCommand]
  ELSE IF commands[self][PATCH_COMMAND_NAME] # NoCommand THEN [returns |-> TRUE, value |-> NoCommand]
  ELSE [returns |-> FALSE, value |-> NoCommand]

(***************************************************************************)
(* patched_get_command, inject.py 84-92: the part before the lock.         *)
(* returns = TRUE: the call returns value; FALSE: it goes on to line 93.   *)
(***************************************************************************)
patched_get_command_head(self, has_parent, cmd_name) ==
  LET command == orig_get_command(self, cmd_name) IN
  IF command # NoCommand THEN [returns |-> TRUE, value |-> command]
  ELSE IF cmd_name # PATCH_COMMAND_NAME THEN [returns |-> TRUE, value |-> NoCommand]
  ELSE IF has_parent THEN [returns |-> TRUE, value |-> NoCommand]
  ELSE IF commands[self][PATCH_COMMAND_NAME] # NoCommand THEN [returns |-> TRUE, value |-> NoCommand]
  ELSE [returns |-> FALSE, value |-> NoCommand]

(* the lister without the names.sort() of line 108 *)
patched_list_commands_unsorted(self, has_parent) ==
  LET names == orig_list_commands(self) IN
  IF /\ ~has_parent
     /\ commands[self][PATCH_COMMAND_NAME] = NoCommand
     /\ ~InSeq(PATCH_COMMAND_NAME, names)
  THEN Append(names, PATCH_COMMAND_NAME)
  ELSE names

(***************************************************************************)
(* patched_list_commands, inject.py 100-109.                               *)
(***************************************************************************)
patched_list_commands(self, has_parent) ==
  LET names == orig_list_commands(self) IN
  IF /\ ~has_parent
     /\ commands[self][PATCH_COMMAND_NAME] = NoCommand
     /\ ~InSeq(PATCH_COMMAND_NAME, names)
  THEN SortNames(Append(names, PATCH_COMMAND_NAME))
  ELSE names

GetResult(via, self, has_parent, cmd_name, result) ==
  [op |-> "get_command", via |-> via, self |-> self, has_parent |-> has_parent,
   cmd_name |-> cmd_name, result |-> result]

(***************************************************************************)
(* group.get_command(ctx, cmd_name) by thread t while click's own resolver *)
(* is installed.                                                           *)
(***************************************************************************)
get_command_unpatched(t, self, has_parent, cmd_name) ==
  /\ pc[t] = "idle"
  /\ Group_get_command = ClickGetCommand
  /\ last' = GetResult(ClickGetCommand, self, has_parent, cmd_name,
                       click_get_command(self, cmd_name))
  /\ UNCHANGED <<patchVars, commands, INJECTED_COMMANDS, LOCK, pc, frame, built, catalogVars>>

(***************************************************************************)
(* group.get_command(ctx, cmd_name) by thread t while the wrapper is       *)
(* installed: inject.py 84-92, then either the return or the wait at 93.   *)
(***************************************************************************)
get_command_patched(t, self, has_parent, cmd_name) ==
  /\ pc[t] = "idle"
  /\ Group_get_command = PatchedGetCommand
  /\ LET h == patched_get_command_head(self, has_parent, cmd_name) IN
       IF h.returns
         THEN /\ last' = GetResult(PatchedGetCommand, self, has_parent, cmd_name, h.value)
              /\ UNCHANGED <<pc, frame>>
         ELSE /\ pc' = [pc EXCEPT ![t] = "L93"]
              /\ frame' = [frame EXCEPT ![t] = [self |-> self, has_parent |-> has_parent,
                                                cmd_name |-> cmd_name, injected |-> NoCommand]]
              /\ UNCHANGED last
  /\ UNCHANGED <<patchVars, commands, INJECTED_COMMANDS, LOCK, built, catalogVars>>

(* a check-or-create that does not wait for the lock *)
LockNotWaitedFor(t) == TRUE

(* threading.Lock: acquire succeeds when no thread holds the lock *)
LockAvailable(t) == LOCK = FALSE

(* inject.py 93-94: with _LOCK: injected = _INJECTED_COMMANDS.get(self) *)
acquire_and_get(t) ==
  /\ pc[t] = "L93"
  /\ LockAvailable(t)
  /\ LOCK' = TRUE
  /\ frame' = [frame EXCEPT ![t].injected = INJECTED_COMMANDS[frame[t].self]]
  /\ pc' = [pc EXCEPT ![t] = "L95"]
  /\ UNCHANGED <<patchVars, commands, INJECTED_COMMANDS, built, last, catalogVars>>

(* inject.py 95-97: build and cache when the registry had no entry *)
check_or_create(t) ==
  /\ pc[t] = "L95"
  /\ LET self == frame[t].self IN
       IF frame[t].injected = NoCommand
         THEN LET injected == build_llm_command(self, PATCH_COMMAND_NAME, "injected",
                                                built[self] + 1) IN
              /\ built' = [built EXCEPT ![self] = @ + 1]
              /\ INJECTED_COMMANDS' = [INJECTED_COMMANDS EXCEPT ![self] = injected]
              /\ frame' = [frame EXCEPT ![t].injected = injected]
         ELSE UNCHANGED <<built, INJECTED_COMMANDS, frame>>
  /\ pc' = [pc EXCEPT ![t] = "L98"]
  /\ UNCHANGED <<patchVars, commands, LOCK, last, catalogVars>>

(* inject.py 98: return injected, leaving the with block *)
return_injected(t) ==
  /\ pc[t] = "L98"
  /\ LOCK' = FALSE
  /\ last' = GetResult(PatchedGetCommand, frame[t].self, frame[t].has_parent,
                       frame[t].cmd_name, frame[t].injected)
  /\ pc' = [pc EXCEPT ![t] = "idle"]
  /\ frame' = [frame EXCEPT ![t] = NoFrame]
  /\ UNCHANGED <<patchVars, commands, INJECTED_COMMANDS, built, catalogVars>>

(***************************************************************************)
(* group.list_commands(ctx) through the installed entry point.             *)
(***************************************************************************)
list_commands(self, has_parent) ==
  /\ last' = [op |-> "list_commands", via |-> Group_list_commands, self |-> self,
              has_parent |-> has_parent,
              result |-> IF Group_list_commands = ClickListCommands
                           THEN click_list_commands(self)
                           ELSE patched_list_commands(self, has_parent)]
  /\ UNCHANGED <<patchVars, commands, INJECTED_COMMANDS, LOCK, pc, frame, built, catalogVars>>

(***************************************************************************)
(* The host program adds a command of its own to a group (click's          *)
(* (click.Group.add_command), while no resolution of the group runs.       *)
(***************************************************************************)
add_command(g, n) ==
  /\ commands[g][n] = NoCommand
  /\ commands' = [commands EXCEPT ![g][n] = HostCommand(g, n)]
  /\ last' = [op |-> "add_command", self |-> g, cmd_name |-> n]
  /\ UNCHANGED <<patchVars, INJECTED_COMMANDS, LOCK, pc, frame, built, catalogVars>>

(***************************************************************************)
(* attach(group, command_name), inject.py 51-57.                           *)
(***************************************************************************)
attach(group, command_name) ==
  /\ IF commands[group][command_name] # NoCommand
       THEN /\ last' = [op |-> "attach", self |-> group, cmd_name |-> command_name,
                        result |-> commands[group][command_name]]
            /\ UNCHANGED commands
       ELSE LET command == build_llm_command(group, command_name, "attach", 0) IN
            /\ commands' = [commands EXCEPT ![group][command_name] = command]
            /\ last' = [op |-> "attach", self |-> group, cmd_name |-> command_name,
                        result |-> command]
  /\ UNCHANGED <<patchVars, INJECTED_COMMANDS, LOCK, pc, frame, built, catalogVars>>

(***************************************************************************)
(* The catalog side, catalog.py.                                           *)
(*                                                                         *)
(* Text is a sequence of characters.  A missing help (None) and an empty   *)
(* one are both <<>>: the code tests them with `or` only.  The commands of *)
(* the model declare no parameters and are not deprecated.                 *)
(***************************************************************************)
MaxNodes == 3
MaxDepth == 2

ChildNames == {"hello", "secret"}
RootNames == {"cli"}
Timestamps == {"2026-01-01T00:00:00+00:00"}

NoText == <<>>
ShortHelps == {NoText, <<" ", "s", " ">>}
Helps == {NoText, <<" ", "a", "\n", "b", " ">>}
Docs == {d \in [short_help : ShortHelps, help : Helps] :
           d.short_help = NoText \/ d.help # NoText}
         \cup {[short_help |-> NoText, help |-> <<"a", " ">>]}

CommandObjects == [kind : {"group", "command"}, hidden : BOOLEAN,
                   short_help : ShortHelps \cup Helps, help : Helps \cup {<<"a", " ">>}]
Commands == {c \in CommandObjects : [short_help |-> c.short_help, help |-> c.help] \in Docs}

NoCatalog == [catalog_version |-> None]
NoOutput == [format |-> None]

(* the root command is one of roots; nothing is built or written yet *)
InitCatalog(roots) ==
  /\ tree \in [{<<>>} -> roots]
  /\ include_hidden = FALSE
  /\ catalog = NoCatalog
  /\ text = NoOutput
  /\ stdout = NoOutput

(* str.strip(): leading and trailing whitespace removed *)
IsSpace(c) == c \in {" ", "\n", "\t"}

RECURSIVE LStrip(_)
LStrip(s) == IF s # <<>> /\ IsSpace(Head(s)) THEN LStrip(Tail(s)) ELSE s

RECURSIVE RStrip(_)
RStrip(s) == IF s # <<>> /\ IsSpace(s[Len(s)]) THEN RStrip(SubSeq(s, 1, Len(s) - 1)) ELSE s

strip(s) == RStrip(LStrip(s))

(* a or b on strings: a when it is non-empty *)
Or(a, b) == IF a # NoText THEN a ELSE b

(* the names of the children of the group at path p *)
ChildrenOf(p) == {n \in ChildNames : Append(p, n) \in DOMAIN tree}

NoEntry == [kind |-> None]

(***************************************************************************)
(* _serialize_command, catalog.py 86-118.  path_parts stands for the path  *)
(* " ".join(path_parts): the names of the model hold no space.             *)
(***************************************************************************)
RECURSIVE serialize_command(_, _, _, _)
RECURSIVE serialize_command_root_flag_inherited(_, _, _, _)

(* the recursive call handing its own is_root on to the child *)
serialize_command_root_flag_inherited(p, path_parts, incl_hidden, is_root) ==
  LET command == tree[p] IN
  IF command.hidden /\ ~incl_hidden /\ ~is_root THEN NoEntry
  ELSE
    LET names == SortNames(SetToSeq(ChildrenOf(p)))
        child_entries == [i \in 1..Len(names) |->
                            serialize_command_root_flag_inherited(
                                Append(p, names[i]), Append(path_parts, names[i]),
                                incl_hidden, is_root)]
        children == SelectSeq(child_entries, LAMBDA e : e # NoEntry)
    IN [path |-> path_parts,
        name |-> path_parts[Len(path_parts)],
        kind |-> command.kind,
        summary |-> strip(Or(command.short_help, Or(command.help, NoText))),
        hidden |-> command.hidden,
        deprecated |-> FALSE,
        params |-> <<>>,
        subcommands |-> IF command.kind = "group" THEN children ELSE <<>>]

serialize_command(p, path_parts, incl_hidden, is_root) ==
  LET command == tree[p] IN
  IF command.hidden /\ ~incl_hidden /\ ~is_root THEN NoEntry
  ELSE
    LET names == SortNames(SetToSeq(ChildrenOf(p)))
        child_entries == [i \in 1..Len(names) |->
                            serialize_command(Append(p, names[i]),
                                              Append(path_parts, names[i]),
                                              incl_hidden, FALSE)]
        children == SelectSeq(child_entries, LAMBDA e : e # NoEntry)
    IN [path |-> path_parts,
        name |-> path_parts[Len(path_parts)],
        kind |-> command.kind,
        summary |-> strip(Or(command.short_help, Or(command.help, NoText))),
        hidden |-> command.hidden,
        deprecated |-> FALSE,
        params |-> <<>>,
        subcommands |-> IF command.kind = "group" THEN children ELSE <<>>]

(***************************************************************************)
(* _flatten, catalog.py 121-135.                                           *)
(***************************************************************************)
RECURSIVE flatten(_)
RECURSIVE flatten_children(_)
flatten_children(children) ==
  IF children = <<>> THEN <<>>
  ELSE flatten(Head(children)) \o flatten_children(Tail(children))

flatten(tree_entry) ==
  <<[path |-> tree_entry.path, name |-> tree_entry.name, kind |-> tree_entry.kind,
     summary |-> tree_entry.summary, hidden |-> tree_entry.hidden,
     deprecated |-> tree_entry.deprecated, params |-> tree_entry.params]>>
  \o flatten_children(tree_entry.subcommands)

(***************************************************************************)
(* build_click_catalog, catalog.py 138-157, as a value.                    *)
(***************************************************************************)
click_catalog(root_name, incl_hidden, now) ==
  LET t == serialize_command(<<>>, <<root_name>>, incl_hidden, TRUE) IN
  [catalog_version |-> 1,
   generated_at |-> now,
   root_command |-> root_name,
   tree |-> t,
   commands |-> flatten(t)]

(* _usage_for, catalog.py 160-175, for a command without parameters *)
usage_for(path, params) == <<path>>

(***************************************************************************)
(* render_catalog_text, catalog.py 182-235: the lines it joins with "\n".  *)
(* A line is the tuple of the pieces its f-string puts together.           *)
(***************************************************************************)
command_block(command) ==
  LET path == command.path
      summary == strip(command.summary)
  IN IF path = <<>> THEN <<>>
     ELSE <<<<"">>, <<"### ", path>>, <<"kind: ", command.kind>>>>
          \o (IF summary # NoText THEN <<<<"summary: ", summary>>>> ELSE <<>>)
          \o <<<<"usage: ", usage_for(path, command.params)>>>>
          \o <<<<"params: none">>>>

RECURSIVE command_blocks(_)
command_blocks(cmds) ==
  IF cmds = <<>> THEN <<>>
  ELSE command_block(Head(cmds)) \o command_blocks(Tail(cmds))

catalog_text(c) ==
  << <<"catalog_version: ", c.catalog_version>>,
     <<"generated_at: ", c.generated_at>>,
     <<"root_command: ", c.root_command>>,
     <<"">>,
     <<"commands: ", Len(c.commands)>> >>
  \o command_blocks(c.commands)

(***************************************************************************)
(* The host program declares a command or a group below the group at p     *)
(* (click's @group.command(), @group.group(), add_command).                *)
(***************************************************************************)
declare_command(p, n, c) ==
  /\ catalog = NoCatalog /\ stdout = NoOutput
  /\ p \in DOMAIN tree
  /\ tree[p].kind = "group"
  /\ Append(p, n) \notin DOMAIN tree
  /\ Len(p) < MaxDepth
  /\ Cardinality(DOMAIN tree) < MaxNodes
  /\ tree' = [q \in DOMAIN tree \cup {Append(p, n)} |->
                IF q = Append(p, n) THEN c ELSE tree[q]]
  /\ UNCHANGED <<include_hidden, catalog, text, stdout, injectVars>>

(* build_click_catalog(root, root_name, include_hidden), catalog.py 138-157 *)
build_click_catalog(root_name, incl_hidden, now) ==
  /\ catalog = NoCatalog /\ stdout = NoOutput
  /\ include_hidden' = incl_hidden
  /\ catalog' = click_catalog(root_name, incl_hidden, now)
  /\ UNCHANGED <<tree, text, stdout, injectVars>>

(* render_catalog_text(catalog), catalog.py 182-235 *)
render_catalog_text ==
  /\ catalog # NoCatalog
  /\ text = NoOutput
  /\ text' = [format |-> "text", lines |-> catalog_text(catalog)]
  /\ UNCHANGED <<tree, include_hidden, catalog, stdout, injectVars>>

(***************************************************************************)
(* llm_cmd(as_json), inject.py 34-46, invoked on the root group: the       *)
(* catalog of the root command under its info name, echoed as JSON or as   *)
(* the rendered text.                                                      *)
(***************************************************************************)
llm_cmd(as_json, info_name, now) ==
  /\ catalog = NoCatalog /\ stdout = NoOutput
  /\ tree[<<>>].kind = "group"
  /\ LET c == click_catalog(info_name, FALSE, now) IN
       stdout' = IF as_json THEN [format |-> "json", value |-> c]
                 ELSE [format |-> "text", lines |-> catalog_text(c)]
  /\ UNCHANGED <<tree, include_hidden, catalog, text, injectVars>>

(* a root group as `@click.group() def cli(): pass` declares it *)
PlainGroup == [kind |-> "group", hidden |-> FALSE, short_help |-> NoText, help |-> NoText]

Init == InitInject /\ InitCatalog({PlainGroup})

(***************************************************************************)
(* Spec: one caller.  The program calls the API and resolves commands from *)
(* a single thread, so a call starts only when the previous one returned.  *)
(***************************************************************************)
Caller == CHOOSE t \in Threads : TRUE
Returned == \A t \in Threads : pc[t] = "idle"

Next ==
  \/ Returned /\ \E n \in PatchNames : autopatch(n)
  \/ Returned /\ unpatch
  \/ \E g \in Groups, p \in BOOLEAN, n \in LookupNames :
       get_command_unpatched(Caller, g, p, n)
  \/ \E g \in Groups, p \in BOOLEAN, n \in LookupNames :
       get_command_patched(Caller, g, p, n)
  \/ acquire_and_get(Caller)
  \/ check_or_create(Caller)
  \/ return_injected(Caller)
  \/ Returned /\ \E g \in Groups, p \in BOOLEAN : list_commands(g, p)
  \/ Returned /\ \E g \in Groups, n \in HostNames : add_command(g, n)
  \/ Returned /\ \E g \in Groups, n \in PatchNames : attach(g, n)

Spec == Init /\ [][Next]_vars

(***************************************************************************)
(* SpecThreads: several threads resolve commands concurrently while        *)
(* another thread of the process patches and unpatches; the command tables *)
(* are the ones the program was set up with.                               *)
(***************************************************************************)
NextThreads ==
  \/ \E n \in PatchNames : autopatch(n)
  \/ unpatch
  \/ \E t \in Threads, g \in Groups, p \in BOOLEAN, n \in LookupNames :
       get_command_patched(t, g, p, n)
  \/ \E t \in Threads : acquire_and_get(t)
  \/ \E t \in Threads : check_or_create(t)
  \/ \E t \in Threads : return_injected(t)

SpecThreads == Init /\ [][NextThreads]_vars

(***************************************************************************)
(* SpecCatalog: the host declares a command tree, then the catalog of the  *)
(* tree is built and rendered, or the injected command is invoked on it.   *)
(***************************************************************************)
NextCatalog ==
  \/ \E p \in DOMAIN tree, n \in ChildNames, c \in Commands : declare_command(p, n, c)
  \/ \E r \in RootNames, h \in BOOLEAN, now \in Timestamps : build_click_catalog(r, h, now)
  \/ render_catalog_text
  \/ \E j \in BOOLEAN, r \in RootNames, now \in Timestamps : llm_cmd(j, r, now)

InitAnyRoot == InitInject /\ InitCatalog(Commands)

SpecCatalog == InitAnyRoot /\ [][NextCatalog]_vars

(***************************************************************************)
(* C1. Conflict detection: autopatch(b) called while patched under a       *)
(* different name a raises the conflict error and changes nothing: the     *)
(* state stays patched under a, with the same saved originals and the same *)
(* installed entry points as before the call.                              *)
(***************************************************************************)
ConflictDetection ==
  (last.op = "autopatch" /\ last.pre.patched /\ last.pre.name # last.arg)
    => (last.raised /\ PatchState = last.pre)

ConflictDetectionWitness ==
  /\ last.op = "autopatch"
  /\ last.raised
  /\ last.pre.patched
  /\ PATCHED
  /\ PATCH_COMMAND_NAME # last.arg

(***************************************************************************)
(* C2. Idempotence and reversibility: autopatch(x) while patched under x   *)
(* is a no-op, so the saved originals are never the wrappers; unpatch()    *)
(* while unpatched is a no-op; and unpatch() after patching leaves click's *)
(* two own entry points installed.                                         *)
(***************************************************************************)
PatchIdempotentReversible ==
  /\ (last.op = "autopatch" /\ last.pre.patched /\ last.pre.name = last.arg)
       => (~last.raised /\ PatchState = last.pre)
  /\ PATCHED => /\ ORIG_GET_COMMAND = ClickGetCommand
                /\ ORIG_LIST_COMMANDS = ClickListCommands
  /\ (last.op = "unpatch" /\ ~last.pre.patched) => PatchState = last.pre
  /\ (last.op = "unpatch" /\ last.pre.patched)
       => /\ ~PATCHED
          /\ Group_get_command = ClickGetCommand
          /\ Group_list_commands = ClickListCommands

PatchIdempotentReversibleWitness ==
  /\ last.op = "unpatch"
  /\ last.pre.patched
  /\ last.pre.get_command = PatchedGetCommand
  /\ Group_get_command = ClickGetCommand

(***************************************************************************)
(* C3. Patch state invariant as claimed: patched implies both saved        *)
(* references are set, unpatched implies both are None.  unpatch() does    *)
(* not reset them, so the second half fails after autopatch then unpatch.  *)
(***************************************************************************)
PatchStateInvariant ==
  /\ PATCHED => (ORIG_GET_COMMAND # None /\ ORIG_LIST_COMMANDS # None)
  /\ ~PATCHED => (ORIG_GET_COMMAND = None /\ ORIG_LIST_COMMANDS = None)

(***************************************************************************)
(* C4. Never-shadow: a patched resolution of a name that is in the group's *)
(* explicit command table returns the command of the table, never one the  *)
(* registry holds, in root and in nested contexts.                         *)
(***************************************************************************)
NeverShadow ==
  (/\ last.op = "get_command"
   /\ last.via = PatchedGetCommand
   /\ commands[last.self][last.cmd_name] # NoCommand)
    => /\ last.result = commands[last.self][last.cmd_name]
       /\ last.result.origin # "injected"

(* the explicit command carries the reserved name and the registry already
   holds an injected command for the group *)
NeverShadowWitness ==
  /\ last.op = "get_command"
  /\ last.via = PatchedGetCommand
  /\ PATCHED
  /\ last.cmd_name = PATCH_COMMAND_NAME
  /\ commands[last.self][last.cmd_name] # NoCommand
  /\ INJECTED_COMMANDS[last.self] # NoCommand
  /\ last.result = commands[last.self][last.cmd_name]

(***************************************************************************)
(* C5. Root-only: in a context that has a parent the patched resolver      *)
(* returns what click's resolver returns, the patched lister returns       *)
(* click's enumeration, and no such resolution reaches the registry.       *)
(***************************************************************************)
RootOnly ==
  /\ (last.op = "get_command" /\ last.via = PatchedGetCommand /\ last.has_parent)
       => last.result = click_get_command(last.self, last.cmd_name)
  /\ (last.op = "list_commands" /\ last.via = PatchedListCommands /\ last.has_parent)
       => last.result = click_list_commands(last.self)
  /\ \A t \in Threads : pc[t] # "idle" => ~frame[t].has_parent

RootOnlyWitness ==
  /\ last.op = "get_command"
  /\ last.via = PatchedGetCommand
  /\ PATCHED
  /\ last.has_parent
  /\ last.cmd_name = PATCH_COMMAND_NAME
  /\ last.result = NoCommand
  /\ INJECTED_COMMANDS[last.self] = NoCommand

IsSorted(s) == \A i, j \in 1..Len(s) : i < j => ~NameLess(s[j], s[i])
Count(n, s) == Cardinality({i \in 1..Len(s) : s[i] = n})
Elems(s) == {s[i] : i \in 1..Len(s)}

(***************************************************************************)
(* C6. Patched listing at a root: when the reserved name is not an         *)
(* explicit command of the group, the listing is click's enumeration plus  *)
(* the reserved name, exactly once, in sorted order; when it is an         *)
(* explicit command (or already listed) the enumeration comes back as is.  *)
(***************************************************************************)
PatchedListingAtRoot ==
  (last.op = "list_commands" /\ last.via = PatchedListCommands /\ ~last.has_parent)
    => LET orig == click_list_commands(last.self) IN
       IF commands[last.self][PATCH_COMMAND_NAME] = NoCommand
            /\ ~InSeq(PATCH_COMMAND_NAME, orig)
         THEN /\ Elems(last.result) = Elems(orig) \cup {PATCH_COMMAND_NAME}
              /\ Len(last.result) = Len(orig) + 1
              /\ Count(PATCH_COMMAND_NAME, last.result) = 1
              /\ IsSorted(last.result)
         ELSE last.result = orig

(* the reserved name sorts before a name of the table *)
PatchedListingAtRootWitness ==
  /\ last.op = "list_commands"
  /\ last.via = PatchedListCommands
  /\ ~last.has_parent
  /\ commands[last.self][PATCH_COMMAND_NAME] = NoCommand
  /\ \E n \in TableNames(last.self) : NameLess(PATCH_COMMAND_NAME, n)
  /\ InSeq(PATCH_COMMAND_NAME, last.result)

(***************************************************************************)
(* C7. Single build per group: whatever the interleaving of the threads,   *)
(* patched_get_command builds at most one command per group, the registry  *)
(* entry of a group is that command, and every resolution that returns an  *)
(* injected command returns the registry's entry of its group.             *)
(***************************************************************************)
SingleBuildPerGroup ==
  /\ \A g \in Groups :
       /\ built[g] <= 1
       /\ INJECTED_COMMANDS[g] # NoCommand =>
            (INJECTED_COMMANDS[g].group = g /\ built[g] = 1)
  /\ \A t \in Threads :
       pc[t] = "L98" => frame[t].injected = INJECTED_COMMANDS[frame[t].self]
  /\ (last.op = "get_command" /\ last.result.origin = "injected")
       => last.result = INJECTED_COMMANDS[last.self]

(* a thread is about to return the cached command while another one waits
   for the lock on the same group, and the other group has its own entry *)
SingleBuildPerGroupWitness ==
  \E t1, t2 \in Threads :
    /\ pc[t1] = "L98"
    /\ pc[t2] = "L93"
    /\ frame[t1].self = frame[t2].self
    /\ last.op = "get_command"
    /\ last.self = frame[t1].self
    /\ last.result = frame[t1].injected
    /\ \A g \in Groups : built[g] = 1

RECURSIVE NestedEntries(_)
NestedEntries(e) ==
  {e} \cup UNION {NestedEntries(e.subcommands[i]) : i \in 1..Len(e.subcommands)}

(* the command the entry describes, and those between it and the root, are
   not hidden *)
NothingHiddenAbove(e) ==
  LET rel == Tail(e.path) IN
  /\ Len(e.path) > 1 => ~e.hidden
  /\ \A k \in 1..Len(rel) : ~tree[SubSeq(rel, 1, k)].hidden

Filtered(c) ==
  /\ c.tree # NoEntry
  /\ c.tree.path = <<c.root_command>>
  /\ c.tree.hidden = tree[<<>>].hidden
  /\ Len(c.commands) >= 1
  /\ c.commands[1].path = <<c.root_command>>
  /\ \A i \in 1..Len(c.commands) : NothingHiddenAbove(c.commands[i])
  /\ \A e \in NestedEntries(c.tree) : NothingHiddenAbove(e)

(***************************************************************************)
(* C8. Filtering invariant: a catalog built with include_hidden = FALSE    *)
(* always holds the root entry, also for a hidden root, and neither its    *)
(* tree nor its flattened list holds a hidden command other than the root  *)
(* or any command below a hidden non-root command.                         *)
(***************************************************************************)
FilteringInvariant ==
  /\ (catalog # NoCatalog /\ ~include_hidden) => Filtered(catalog)
  /\ stdout.format = "json" => Filtered(stdout.value)

(* a hidden root, and below it a hidden group with a command that is not
   hidden: the catalog is the root entry alone *)
FilteringInvariantWitness ==
  /\ catalog # NoCatalog
  /\ ~include_hidden
  /\ tree[<<>>].hidden
  /\ \E n, m \in ChildNames :
       /\ <<n, m>> \in DOMAIN tree
       /\ tree[<<n>>].hidden
       /\ ~tree[<<n, m>>].hidden
  /\ Len(catalog.commands) = 1
  /\ catalog.tree.hidden

BlockCount(lines) == Cardinality({i \in 1..Len(lines) : lines[i][1] = "### "})

VisiblePaths(incl_hidden) ==
  {p \in DOMAIN tree :
     \A k \in 1..Len(p) : ~tree[SubSeq(p, 1, k)].hidden \/ incl_hidden}

(***************************************************************************)
(* C9. Text output lists commands but not groups, as the test              *)
(* test_text_output_lists_commands_but_not_groups asserts it: the text the *)
(* injected command writes has one "### " block per command that is not a *)
(* group and no "kind: group" line; a root group with one child command    *)
(* gives exactly one block.  render_catalog_text writes a block for every  *)
(* entry, the root group included.                                         *)
(***************************************************************************)
TextListsCommandsNotGroups ==
  stdout.format = "text" =>
    /\ \A i \in 1..Len(stdout.lines) : stdout.lines[i] # <<"kind: ", "group">>
    /\ BlockCount(stdout.lines)
         = Cardinality({p \in VisiblePaths(FALSE) : tree[p].kind = "command"})
    /\ (\E c \in ChildNames :
          DOMAIN tree = {<<>>, <<c>>} /\ tree[<<c>>].kind = "command"
                                      /\ ~tree[<<c>>].hidden)
         => BlockCount(stdout.lines) = 1

RECURSIVE FirstLine(_)
FirstLine(s) ==
  IF s = <<>> \/ Head(s) = "\n" THEN <<>> ELSE <<Head(s)>> \o FirstLine(Tail(s))

ClaimedSummary(c) ==
  IF c.short_help # NoText THEN strip(c.short_help)
  ELSE IF c.help # NoText THEN strip(FirstLine(c.help))
  ELSE NoText

(***************************************************************************)
(* C10. Summary of a catalog node as claimed: the trimmed short help when  *)
(* the command has one, otherwise the trimmed first line of the long help  *)
(* and no more, otherwise the empty string.  The code trims the whole long *)
(* help, so a help of several lines gives a summary of several lines.      *)
(***************************************************************************)
SummaryOfNode ==
  catalog # NoCatalog =>
    \A i \in 1..Len(catalog.commands) :
      catalog.commands[i].summary = ClaimedSummary(tree[Tail(catalog.commands[i].path)])

(***************************************************************************)
(* C11. Injected command carries the active reserved name: whenever a      *)
(* patched resolution at a root context returns an injected command for    *)
(* the active reserved name N, the name of that command is N.  unpatch()   *)
(* keeps the registry, and lines 94-98 return the cached command as it was *)
(* built, so after autopatch(M), a resolution, unpatch() and autopatch(N)  *)
(* the group's command is still named M.                                   *)
(***************************************************************************)
InjectedCarriesActiveName ==
  (/\ last.op = "get_command"
   /\ last.via = PatchedGetCommand
   /\ PATCHED
   /\ ~last.has_parent
   /\ last.cmd_name = PATCH_COMMAND_NAME
   /\ last.result.origin = "injected")
    => last.result.name = PATCH_COMMAND_NAME
====
